---- MODULE Spec2Model ----
(***************************************************************************)
(* Authentication / session-token lifecycle of the video-platform backend. *)
(*                                                                         *)
(* The credential store is the User collection; every request handler is   *)
(* an async function whose awaited store operations are the atomic steps   *)
(* of the model, so two requests interleave exactly where the code awaits  *)
(* the store.  Tokens are JSON web tokens: an HMAC over the payload, the   *)
(* issue time in whole seconds and the expiry, hence a pure function of    *)
(* (secret, payload, iat, exp).                                            *)
(***************************************************************************)
EXTENDS Integers, FiniteSets, Sequences, TLC

\* ------------------------------------------------------------------ bounds
\* Last second of the clock, and number of requests the clients send.
MaxTime == 2
MaxCalls == 3

\* ----------------------------------------------------------- configuration
\* process.env.ACCESS_TOKEN_EXPIRY / REFRESH_TOKEN_EXPIRY, in seconds.
ACCESS_TOKEN_EXPIRY == 1
REFRESH_TOKEN_EXPIRY == 2

\* Document ids handed out by the store, and the concurrent request slots.
Ids == {"id1", "id2", "id3"}
NoId == "none"
Clients == {"c1", "c2"}

\* Strings the code inspects character by character are sequences of
\* one-character strings; Undefined is a field missing from the request.
Undefined == <<"undefined">>
EmptyStr == <<>>
Falsy(s) == s \in {Undefined, EmptyStr}

UsernameInputs == {Undefined, <<"u", "1">>, <<"U", "1", " ">>, <<"u", "9">>}
EmailInputs == {Undefined, <<"e", "2">>, <<" ", "E", "2">>}
PasswordInputs == {"", "pw1", "pw2"}

\* The credentials of a login request: <<username, email, password>>.
LoginInputs == UsernameInputs \X EmailInputs \X PasswordInputs

\* The logins of the session model: by username, password right or wrong.
SessionLoginInputs == {<<"u", "1">>} \X {Undefined} \X {"pw1", "pw2"}

\* req.body of a registration.  Passwords are atoms of the model: NoPassword
\* stands for an absent one, and " " is the only one with white space.
NoPassword == "undefined"

RegisterUsernames == {Undefined, <<" ">>, <<"U", "1", " ">>, <<"u", "2">>}
RegisterEmails == {Undefined, EmptyStr, <<"e", "1">>, <<" ", "E", "2">>}
RegisterNames == {Undefined, <<" ">>, <<"n">>}
RegisterPasswords == {NoPassword, "", " ", "pw1"}

RegisterInputs ==
  [username : RegisterUsernames, email : RegisterEmails,
   fullName : RegisterNames, password : RegisterPasswords]

NoBody == [username |-> Undefined, email |-> Undefined,
           fullName |-> Undefined, password |-> NoPassword]

\* req.body of updateAccountDetails.
UpdateInputs == {Undefined, <<"n", " ">>} \X {Undefined, <<"e", "1">>, <<" ", "E", "2">>}

\* The inputs in canonical form: lower case, no surrounding blanks.
Canon(s) ==
  CASE s = <<"U", "1", " ">> -> <<"u", "1">>
    [] s = <<" ", "E", "2">> -> <<"e", "2">>
    [] OTHER -> s

\* ---------------------------------------------------------- schema setters
\* String.prototype.toLowerCase on the alphabet of the model.
LowerChar(ch) ==
  CASE ch = "U" -> "u"
    [] ch = "E" -> "e"
    [] OTHER -> ch

toLowerCase(s) == [i \in DOMAIN s |-> LowerChar(s[i])]

RECURSIVE TrimStart(_)
TrimStart(s) ==
  IF s # <<>> /\ Head(s) = " " THEN TrimStart(Tail(s)) ELSE s

RECURSIVE TrimEnd(_)
TrimEnd(s) ==
  IF s # <<>> /\ s[Len(s)] = " " THEN TrimEnd(SubSeq(s, 1, Len(s) - 1)) ELSE s

trim(s) == TrimEnd(TrimStart(s))

\* A schema without the lowercase setter.
CastIdentityRaw(s) == IF s = Undefined THEN Undefined ELSE trim(s)

\* userSchema: username and email are { lowercase: true, trim: true }; the
\* setters run when a document is created and when a query filter is cast.
CastIdentity(s) == IF s = Undefined THEN Undefined ELSE trim(toLowerCase(s))

\* ------------------------------------------------------------ password hash
\* bcrypt.hash / bcrypt.compare: the digest is not the plaintext and only
\* the plaintext it was made from compares equal.
BcryptHash(p) == [bcrypt |-> p]

verifyPassword(p, digest) == digest = BcryptHash(p)

\* The text of a stored digest, as a plaintext: no request sends it.
DigestText == "$2b$10$"

\* A pre-save hook that hashes the password field on every save.
HashOnSaveAlways(stored, assigned, isModified) ==
  IF isModified THEN BcryptHash(assigned) ELSE BcryptHash(DigestText)

\* userSchema.pre("save"): the password field after a save; it is hashed
\* only if this save modified it.
HashOnSave(stored, assigned, isModified) ==
  IF isModified THEN BcryptHash(assigned) ELSE stored

\* ------------------------------------------------------------------ tokens
NoSnap == [username |-> EmptyStr, email |-> EmptyStr, fullName |-> EmptyStr]

NullToken == [kind |-> "null", id |-> NoId, iat |-> 0, exp |-> 0, snap |-> NoSnap]

\* A token signed with a key the server does not hold.
ForgedToken == [kind |-> "forged", id |-> "id1", iat |-> 0, exp |-> MaxTime + 1, snap |-> NoSnap]

\* jwt.sign(payload, secret, { expiresIn }): secret, payload, iat and exp
\* determine the token.
JwtSign(secret, id, snap, expiresIn, t) ==
  [kind |-> secret, id |-> id, iat |-> t, exp |-> t + expiresIn, snap |-> snap]

generateAccessToken(doc, t) ==
  JwtSign("access", doc.id,
          [username |-> doc.username, email |-> doc.email, fullName |-> doc.fullName],
          ACCESS_TOKEN_EXPIRY, t)

generateRefreshToken(doc, t) ==
  JwtSign("refresh", doc.id, NoSnap, REFRESH_TOKEN_EXPIRY, t)

\* jwt.verify(token, secret): the message of the error thrown, or "ok".
JwtVerify(tok, secret, t) ==
  IF tok.kind \notin {"access", "refresh"} THEN "invalid signature"
  ELSE IF tok.kind # secret THEN "invalid signature"
  ELSE IF t >= tok.exp THEN "jwt expired"
  ELSE "ok"

\* ------------------------------------------------------------------- store
NoDoc ==
  [id |-> NoId, username |-> EmptyStr, email |-> EmptyStr, fullName |-> EmptyStr,
   password |-> BcryptHash(""), refreshToken |-> NullToken]

NewDoc(id, username, email, fullName, password) ==
  [id |-> id, username |-> CastIdentity(username), email |-> CastIdentity(email),
   fullName |-> trim(fullName), password |-> BcryptHash(password), refreshToken |-> NullToken]

\* A projection that selects every field.
SelectAll(doc) == doc

\* .select("-password -refreshToken")
SelectPublic(doc) ==
  [f \in (DOMAIN doc) \ {"password", "refreshToken"} |-> doc[f]]

NoUser == SelectPublic(NoDoc)

VARIABLES
  db,              \* the User collection: id -> document, NoDoc when absent
  now,             \* wall clock, whole seconds
  stripsUndefined, \* the installed ODM drops undefined keys of an update
  req,             \* per client: the request in flight
  last,            \* the request the latest step answered, with its response
  calls,           \* requests sent so far
  issued,          \* token pairs delivered to clients in 200 responses
  accepted,        \* refresh calls answered with 200: token presented, token returned
  revoked,         \* refresh tokens delivered before a completed logout
  superseded,      \* refresh tokens of logins followed by another login
  passwordChanged, \* per account: the latest password change that was saved
  subscriptions,   \* the Subscription collection
  watchHistories,  \* the WatchHistory collection
  videos           \* the Video collection

vars ==
  <<db, now, stripsUndefined, req, last, calls, issued, accepted, revoked, superseded,
    passwordChanged, subscriptions, watchHistories, videos>>

content == <<subscriptions, watchHistories, videos>>

NoChange == [old |-> "", new |-> ""]

\* The data of the view handlers' answers.
NoData ==
  [subscribersCount |-> 0, channelsSubscribedToCount |-> 0, isSubscribed |-> FALSE,
   watchHistory |-> {}]

NoResp ==
  [status |-> 0, message |-> "", accessToken |-> NullToken, refreshToken |-> NullToken,
   user |-> NoUser, cookies |-> "untouched", data |-> NoData]

IdleReq ==
  [op |-> "none", pc |-> "idle", tok |-> NullToken, id |-> NoId,
   loaded |-> NullToken, accessToken |-> NullToken, refreshToken |-> NullToken,
   user |-> NoUser, oldPassword |-> "", newPassword |-> "", body |-> NoBody,
   title |-> Undefined, resp |-> NoResp,
   \* what the request observed and did, kept for the properties below
   missing |-> FALSE, verified |-> FALSE, found |-> FALSE, matched |-> FALSE,
   replay |-> FALSE, stale |-> FALSE, old |-> FALSE, raced |-> FALSE,
   wrote |-> FALSE, broke |-> FALSE, ran |-> FALSE,
   persisted |-> FALSE, equal |-> FALSE, pwOld |-> FALSE, pwNew |-> FALSE,
   cleared |-> FALSE, kept |-> FALSE]

Fail(status, message) == [NoResp EXCEPT !.status = status, !.message = message]

Exists(id) == id \in Ids /\ db[id] # NoDoc

\* Two registered accounts, nobody logged in.
InitDb ==
  [i \in Ids |->
     IF i = "id1" THEN NewDoc("id1", <<"u", "1">>, <<"e", "1">>, <<"n">>, "pw1")
     ELSE IF i = "id2" THEN NewDoc("id2", <<"u", "2">>, <<"e", "2">>, <<"n">>, "pw2")
     ELSE NoDoc]

InitRest ==
  /\ now = 0
  /\ stripsUndefined \in BOOLEAN
  /\ req = [c \in Clients |-> IdleReq]
  /\ last = IdleReq
  /\ calls = 0
  /\ issued = {}
  /\ accepted = {}
  /\ revoked = {}
  /\ superseded = {}
  /\ passwordChanged = [i \in Ids |-> NoChange]
  /\ subscriptions = {}
  /\ watchHistories = {}
  /\ videos = {}

\* One registered account.
Init ==
  /\ db = [InitDb EXCEPT !["id2"] = NoDoc]
  /\ InitRest

CanStart(c) == req[c].pc = "idle" /\ calls < MaxCalls

\* The response is sent: the slot is free again.
Answer(c, r) ==
  /\ req' = [req EXCEPT ![c] = IdleReq]
  /\ last' = [r EXCEPT !.pc = "done", !.loaded = NullToken,
                 !.oldPassword = "", !.newPassword = "", !.body = NoBody]

\* ------------------------------------------------------------- environment
Tick ==
  /\ now < MaxTime
  /\ now' = now + 1
  /\ last' = IdleReq
  /\ UNCHANGED <<db, stripsUndefined, req, calls, issued, accepted, revoked, superseded, passwordChanged, content>>

\* The document is deleted from the collection behind the handlers' back.
RemoveAccount(id) ==
  /\ Exists(id)
  /\ db' = [db EXCEPT ![id] = NoDoc]
  /\ last' = IdleReq
  /\ UNCHANGED <<now, stripsUndefined, req, calls, issued, accepted, revoked, superseded, passwordChanged, content>>

\* ------------------------------------------------------------------- login
\* User.findOne({ $or: [{ username }, { email }] }): the documents matching
\* the cast filter; an undefined value matches no document.
FindByUsernameOrEmail(store, username, email) ==
  {i \in Ids :
     /\ store[i] # NoDoc
     /\ \/ (username # Undefined /\ store[i].username = CastIdentity(username))
        \/ (email # Undefined /\ store[i].email = CastIdentity(email))}

\* A login that does not verify the password.
LoginCheckNoPassword(store, username, email, password, hit) ==
  IF (Falsy(username) /\ Falsy(email)) \/ password = "" THEN
    Fail(400, "Username or email and password are required")
  ELSE IF hit = NoId THEN Fail(404, "User does not exist")
  ELSE Fail(0, "ok")

\* loginUser up to the call of generateAccessAndRefreshToken: the error it
\* throws for the document the lookup returned (NoId when none), or "ok".
LoginCheck(store, username, email, password, hit) ==
  IF (Falsy(username) /\ Falsy(email)) \/ password = "" THEN
    Fail(400, "Username or email and password are required")
  ELSE IF hit = NoId THEN Fail(404, "User does not exist")
  ELSE IF ~verifyPassword(password, store[hit].password) THEN
    Fail(401, "Incorrect password")
  ELSE Fail(0, "ok")

LoginStart(c, username, email, password) ==
  /\ CanStart(c)
  /\ LET hits == FindByUsernameOrEmail(db, username, email)
     IN \E hit \in (IF hits = {} THEN {NoId} ELSE hits) :
          LET out == LoginCheck(db, username, email, password, hit)
              r0 == [IdleReq EXCEPT !.op = "login",
                       !.missing = ((username \in {Undefined, EmptyStr} /\ email \in {Undefined, EmptyStr})
                                    \/ password = ""),
                       !.found = (\E i \in Ids : /\ db[i] # NoDoc
                                                 /\ \/ db[i].username = Canon(username)
                                                    \/ db[i].email = Canon(email)),
                       !.matched = (hit # NoId /\ db[hit].password = [bcrypt |-> password]),
                       !.pwOld = (hit # NoId /\ passwordChanged[hit] # NoChange
                                    /\ passwordChanged[hit].old = password),
                       !.pwNew = (hit # NoId /\ passwordChanged[hit] # NoChange
                                    /\ passwordChanged[hit].new = password)]
          IN IF out.status = 0
             THEN /\ req' = [req EXCEPT ![c] = [r0 EXCEPT !.pc = "gen", !.id = hit]]
                  /\ last' = IdleReq
             ELSE Answer(c, [r0 EXCEPT !.resp = out])
  /\ calls' = calls + 1
  /\ UNCHANGED <<db, now, stripsUndefined, issued, accepted, revoked, superseded, passwordChanged, content>>

\* --------------------------------------- generateAccessAndRefreshToken
\* The ApiError of the catch block; refreshAccessToken catches it again and
\* rethrows its message with status 401.
GenFailure(op) ==
  Fail(IF op = "refresh" THEN 401 ELSE 500,
       "Something went wrong while generating tokens")

\* User.findById(userId), then both tokens are signed.
GenLoad(c) ==
  /\ req[c].pc = "gen"
  /\ LET r == req[c]
         doc == db[r.id]
     IN IF doc = NoDoc
        THEN Answer(c, [r EXCEPT !.broke = TRUE, !.resp = GenFailure(r.op)])
        ELSE /\ req' = [req EXCEPT ![c] =
                          [r EXCEPT !.pc = "save", !.loaded = doc.refreshToken,
                             !.accessToken = generateAccessToken(doc, now),
                             !.refreshToken = generateRefreshToken(doc, now)]]
             /\ last' = IdleReq
  /\ UNCHANGED <<db, now, stripsUndefined, calls, issued, accepted, revoked, superseded, passwordChanged, content>>

\* A save that sends the field whether or not it was modified.
SavedRefreshTokenWhole(stored, loaded, minted) == minted

\* user.refreshToken = refreshToken; user.save({ validateBeforeSave: false }):
\* the value of the field in the collection afterwards.  save() sends the
\* paths whose value differs from the loaded document.
SavedRefreshToken(stored, loaded, minted) ==
  IF minted = loaded THEN stored ELSE minted

TokenResponse(r, message) ==
  [NoResp EXCEPT !.status = 200, !.message = message,
     !.accessToken = r.accessToken, !.refreshToken = r.refreshToken,
     !.cookies = "set"]

Pair(r) == [accessToken |-> r.accessToken, refreshToken |-> r.refreshToken, by |-> r.op]

\* A save that also rejects when the stored token is no longer the one the
\* request presented (compare-and-swap).
SaveThrowsCas(doc, r, fault) ==
  \/ fault
  \/ (r.refreshToken # r.loaded /\ doc = NoDoc)
  \/ (r.op = "refresh" /\ doc # NoDoc /\ doc.refreshToken # r.tok)

\* A save that reports success when the document is gone.
SaveThrowsLax(doc, r, fault) == fault

\* user.save() rejects: the store fails, or the document to update is gone.
SaveThrows(doc, r, fault) == fault \/ (r.refreshToken # r.loaded /\ doc = NoDoc)

GenSave(c) ==
  /\ req[c].pc = "save"
  /\ LET r == req[c]
         dirty == r.refreshToken # r.loaded
     IN \E fault \in (IF dirty THEN BOOLEAN ELSE {FALSE}) :
          IF SaveThrows(db[r.id], r, fault) THEN
            /\ Answer(c, [r EXCEPT !.broke = (fault \/ ~Exists(r.id)),
                             !.resp = GenFailure(r.op)])
            /\ UNCHANGED <<db, issued, accepted>>
          ELSE
            /\ db' = IF Exists(r.id)
                     THEN [db EXCEPT ![r.id].refreshToken =
                                       SavedRefreshToken(@, r.loaded, r.refreshToken),
                                     ![r.id].password = HashOnSave(@, "", FALSE)]
                     ELSE db
            /\ IF r.op = "login" THEN
                 /\ req' = [req EXCEPT ![c] =
                              [r EXCEPT !.pc = "respond", !.wrote = (db' # db),
                                 !.kept = (db'[r.id].password = db[r.id].password),
                                 !.persisted = (~dirty \/ db'[r.id].refreshToken = r.refreshToken)]]
                 /\ last' = IdleReq
                 /\ UNCHANGED <<issued, accepted>>
               ELSE
                 /\ Answer(c, [r EXCEPT !.wrote = (db' # db),
                                  !.kept = (db'[r.id].password = db[r.id].password),
                                  !.persisted = (~dirty \/ db'[r.id].refreshToken = r.refreshToken),
                                  !.raced = (~r.replay /\ \E a \in accepted :
                                               a.tok = r.tok /\ a.refreshToken # r.refreshToken),
                                  !.resp = TokenResponse(r, "Access token refreshed successfully")])
                 /\ issued' = issued \cup {Pair(r)}
                 /\ accepted' = accepted \cup {[tok |-> r.tok, refreshToken |-> r.refreshToken]}
  /\ UNCHANGED <<now, stripsUndefined, calls, revoked, superseded, passwordChanged, content>>

\* loginUser after the tokens are stored: the projection is read and the
\* response sent.
LoginRespond(c) ==
  /\ req[c].pc = "respond"
  /\ LET r == req[c]
     IN /\ req' = [d \in Clients |->
                     IF d = c THEN IdleReq
                     ELSE IF req[d].tok.id = r.id
                          THEN [req[d] EXCEPT !.stale = FALSE, !.cleared = FALSE]
                     ELSE req[d]]
        /\ last' = [r EXCEPT !.pc = "done", !.loaded = NullToken,
                      !.resp = [TokenResponse(r, "User logged in successfully")
                                  EXCEPT !.user = SelectPublic(db[r.id])]]
        /\ issued' = issued \cup {Pair(r)}
        /\ revoked' = {t \in revoked : t.id # r.id}
        /\ superseded' = superseded \cup
             {p.refreshToken : p \in {q \in issued : q.by = "login" /\ q.refreshToken.id = r.id}}
  /\ UNCHANGED <<db, now, stripsUndefined, calls, accepted, passwordChanged, content>>

\* ----------------------------------------------------------------- refresh
\* What a client can put in a request: nothing, a token it was given, or a
\* token it made up.
Presentable ==
  {NullToken, ForgedToken} \cup {p.accessToken : p \in issued} \cup {p.refreshToken : p \in issued}

\* The two places a request carries a token in (a cookie, and the body or
\* the Authorization header): one of them filled, or both.
TokenInputs ==
  {<<t, NullToken>> : t \in Presentable} \cup {<<NullToken, t>> : t \in Presentable}

\* A refresh check that does not compare with the stored token.
RefreshCheckNoMatch(store, tok, t) ==
  IF tok = NullToken THEN "Unauthorized request"
  ELSE IF JwtVerify(tok, "refresh", t) # "ok" THEN JwtVerify(tok, "refresh", t)
  ELSE IF store[tok.id] = NoDoc THEN "User not found"
  ELSE "ok"

\* refreshAccessToken up to the call of generateAccessAndRefreshToken: the
\* message of the error thrown, or "ok".
RefreshCheck(store, tok, t) ==
  IF tok = NullToken THEN "Unauthorized request"
  ELSE IF JwtVerify(tok, "refresh", t) # "ok" THEN JwtVerify(tok, "refresh", t)
  ELSE IF store[tok.id] = NoDoc THEN "User not found"
  ELSE IF tok # store[tok.id].refreshToken THEN "Refresh token is expired or used"
  ELSE "ok"

RefreshStart(c, in) ==
  /\ CanStart(c)
  /\ LET tok == IF in[1] # NullToken THEN in[1] ELSE in[2]
         out == RefreshCheck(db, tok, now)
         r0 == [IdleReq EXCEPT !.op = "refresh", !.tok = tok,
                  !.verified = (tok.kind = "refresh" /\ now < tok.exp),
                  !.found = (tok.id \in Ids /\ db[tok.id] # NoDoc),
                  !.matched = (tok.id \in Ids /\ db[tok.id].refreshToken = tok),
                  !.replay = (\E a \in accepted : a.tok = tok),
                  !.stale = (tok \in revoked), !.old = (tok \in superseded)]
     IN IF out = "ok"
        THEN /\ req' = [req EXCEPT ![c] = [r0 EXCEPT !.pc = "gen", !.id = tok.id]]
             /\ last' = IdleReq
        ELSE Answer(c, [r0 EXCEPT !.resp = Fail(401, out)])
  /\ calls' = calls + 1
  /\ UNCHANGED <<db, now, stripsUndefined, issued, accepted, revoked, superseded, passwordChanged, content>>

\* ------------------------------------------------------- protected routes
\* router: every one of these routes runs verifyJWT before its handler.
ProtectedOps == {"logout", "changePassword", "currentUser"}

\* A gate that does not look the account up.
AuthCheckNoLookup(store, tok, t) ==
  IF tok = NullToken THEN "Unauthorized request"
  ELSE IF JwtVerify(tok, "access", t) # "ok" THEN JwtVerify(tok, "access", t)
  ELSE "ok"

\* A gate that also requires a stored refresh token (a live session).
AuthCheckSession(store, tok, t) ==
  IF tok = NullToken THEN "Unauthorized request"
  ELSE IF JwtVerify(tok, "access", t) # "ok" THEN JwtVerify(tok, "access", t)
  ELSE IF store[tok.id] = NoDoc THEN "Invalid Access Token"
  ELSE IF store[tok.id].refreshToken = NullToken THEN "Invalid Access Token"
  ELSE "ok"

\* verifyJWT up to next(): the message of the error thrown, or "ok".
AuthCheck(store, tok, t) ==
  IF tok = NullToken THEN "Unauthorized request"
  ELSE IF JwtVerify(tok, "access", t) # "ok" THEN JwtVerify(tok, "access", t)
  ELSE IF store[tok.id] = NoDoc THEN "Invalid Access Token"
  ELSE "ok"

\* verifyJWT: req.user is set and next() called, or a 401 is thrown.
VerifyJWT(c, op, in) ==
  /\ CanStart(c)
  /\ LET tok == IF in[1] # NullToken THEN in[1] ELSE in[2]
         out == AuthCheck(db, tok, now)
         r0 == [IdleReq EXCEPT !.op = op, !.tok = tok,
                  !.verified = (tok.kind = "access" /\ now < tok.exp),
                  !.found = (tok.id \in Ids /\ db[tok.id] # NoDoc)]
     IN IF out = "ok"
        THEN /\ req' = [req EXCEPT ![c] =
                          [r0 EXCEPT !.pc = "handler", !.id = tok.id,
                             !.user = SelectPublic(db[tok.id])]]
             /\ last' = IdleReq
        ELSE Answer(c, [r0 EXCEPT !.resp = Fail(401, out)])
  /\ calls' = calls + 1
  /\ UNCHANGED <<db, now, stripsUndefined, issued, accepted, revoked, superseded, passwordChanged, content>>

\* User.findByIdAndUpdate(id, { $set: { refreshToken: undefined } }): the
\* value of the field afterwards.  An ODM that drops undefined keys sends an
\* empty $set; one that keeps them stores null.
UnsetRefreshToken(stored, strips) == IF strips THEN stored ELSE NullToken

logoutUser(c) ==
  /\ req[c].pc = "handler" /\ req[c].op = "logout"
  /\ LET r == [req[c] EXCEPT !.ran = TRUE]
         uid == r.user.id
     IN IF db[uid] = NoDoc THEN
          /\ Answer(c, [r EXCEPT !.resp = Fail(500, "Something went wrong while logging out")])
          /\ UNCHANGED <<db, revoked>>
        ELSE
          /\ db' = [db EXCEPT ![uid].refreshToken = UnsetRefreshToken(@, stripsUndefined)]
          /\ req' = [d \in Clients |->
                       IF d = c THEN IdleReq
                       ELSE IF /\ req[d].op = "refresh" /\ req[d].id = uid
                               /\ db'[uid].refreshToken = NullToken
                            THEN [req[d] EXCEPT !.cleared = TRUE]
                       ELSE req[d]]
          /\ last' = [r EXCEPT !.pc = "done", !.wrote = (db' # db),
                        !.resp = [Fail(200, "User logged out successfully")
                                    EXCEPT !.cookies = "cleared"]]
          /\ revoked' = revoked \cup {p.refreshToken : p \in {q \in issued : q.refreshToken.id = uid}}
  /\ UNCHANGED <<now, stripsUndefined, calls, issued, accepted, superseded, passwordChanged, content>>

getCurrentUser(c) ==
  /\ req[c].pc = "handler" /\ req[c].op = "currentUser"
  /\ LET r == [req[c] EXCEPT !.ran = TRUE]
     IN Answer(c, [r EXCEPT !.resp = [Fail(200, "Current user fetched successfully")
                                        EXCEPT !.user = r.user]])
  /\ UNCHANGED <<db, now, stripsUndefined, calls, issued, accepted, revoked, superseded, passwordChanged, content>>

\* A password change that loads the account before it validates the body.
PasswordChangeCheckLoadFirst(doc, oldPassword, newPassword) ==
  IF doc = NoDoc THEN Fail(500, "Cannot read properties of null")
  ELSE IF oldPassword = "" \/ newPassword = "" THEN
    Fail(400, "Old password and new password are required")
  ELSE IF oldPassword = newPassword THEN
    Fail(400, "Old password and new password are the same")
  ELSE IF ~verifyPassword(oldPassword, doc.password) THEN Fail(400, "Invalid old password")
  ELSE Fail(0, "ok")

\* currentPasswordChange up to user.save(): the error thrown for the loaded
\* document, or "ok".
PasswordChangeCheck(doc, oldPassword, newPassword) ==
  IF oldPassword = "" \/ newPassword = "" THEN
    Fail(400, "Old password and new password are required")
  ELSE IF oldPassword = newPassword THEN
    Fail(400, "Old password and new password are the same")
  ELSE IF doc = NoDoc THEN Fail(500, "Cannot read properties of null")
  ELSE IF ~verifyPassword(oldPassword, doc.password) THEN Fail(400, "Invalid old password")
  ELSE Fail(0, "ok")

currentPasswordChange(c, oldPassword, newPassword) ==
  /\ req[c].pc = "handler" /\ req[c].op = "changePassword"
  /\ LET r == [req[c] EXCEPT !.ran = TRUE,
                 !.missing = (oldPassword = "" \/ newPassword = ""),
                 !.equal = (oldPassword = newPassword),
                 !.matched = (db[req[c].user.id].password = [bcrypt |-> oldPassword])]
         out == PasswordChangeCheck(db[r.user.id], oldPassword, newPassword)
     IN IF out.status = 0
        THEN /\ req' = [req EXCEPT ![c] = [r EXCEPT !.pc = "pwsave",
                                               !.loaded = db[r.user.id].refreshToken,
                                               !.oldPassword = oldPassword,
                                               !.newPassword = newPassword]]
             /\ last' = IdleReq
        ELSE Answer(c, [r EXCEPT !.resp = out])
  /\ UNCHANGED <<db, now, stripsUndefined, calls, issued, accepted, revoked, superseded, passwordChanged, content>>

\* A save that does not send the password.
SavedPasswordKept(stored, newPassword) == stored

\* user.password = newPassword; user.save(): the pre-save hook hashes the
\* modified password; the value of the field in the collection afterwards.
SavedPassword(stored, newPassword) == HashOnSave(stored, newPassword, TRUE)

\* A document deleted meanwhile makes save() throw.
PasswordSave(c) ==
  /\ req[c].pc = "pwsave"
  /\ LET r == req[c]
         uid == r.user.id
     IN IF db[uid] = NoDoc THEN
          /\ Answer(c, [r EXCEPT !.resp = Fail(500, "No document found for query")])
          /\ UNCHANGED <<db, passwordChanged, content>>
        ELSE
          /\ db' = [db EXCEPT ![uid].password = SavedPassword(@, r.newPassword),
                             ![uid].refreshToken = SavedRefreshToken(@, r.loaded, r.loaded)]
          /\ Answer(c, [r EXCEPT !.wrote = (db' # db),
                           !.kept = (db'[uid].refreshToken = db[uid].refreshToken),
                           !.raced = (db[uid].refreshToken # r.loaded),
                           !.resp = Fail(200, "Password changed successfully")])
          /\ passwordChanged' =
               [passwordChanged EXCEPT ![uid] = [old |-> r.oldPassword, new |-> r.newPassword]]
  /\ UNCHANGED <<now, stripsUndefined, calls, issued, accepted, revoked, superseded, content>>

\* ---------------------------------------------------------------- register
\* field?.trim() === "" of a text field, and of a password.
Blank(field) == field # Undefined /\ trim(field) = EmptyStr

trimPassword(p) == IF p = " " THEN "" ELSE p

BlankPassword(p) == p # NoPassword /\ trimPassword(p) = ""

\* registerUser up to the uploads: the error thrown, or "ok".
RegisterCheck(store, b) ==
  IF Blank(b.fullName) \/ Blank(b.email) \/ Blank(b.username) \/ BlankPassword(b.password)
  THEN Fail(400, "All fields are required")
  ELSE IF FindByUsernameOrEmail(store, b.username, b.email) # {}
  THEN Fail(409, "User with the same email or username already exists")
  ELSE Fail(0, "ok")

\* What the claims call a missing field, and an identity already taken.
MissingField(b) ==
  \/ b.username \in {Undefined, EmptyStr, <<" ">>}
  \/ b.email \in {Undefined, EmptyStr, <<" ">>}
  \/ b.fullName \in {Undefined, EmptyStr, <<" ">>}
  \/ b.password \in {NoPassword, "", " "}

Taken(store, b) ==
  \E i \in Ids : /\ store[i] # NoDoc
                 /\ \/ store[i].username = Canon(b.username)
                    \/ store[i].email = Canon(b.email)

registerUser(c, b) ==
  /\ CanStart(c)
  /\ LET out == RegisterCheck(db, b)
         r0 == [IdleReq EXCEPT !.op = "register",
                  !.missing = MissingField(b), !.found = Taken(db, b)]
     IN IF out.status = 0
        THEN /\ req' = [req EXCEPT ![c] = [r0 EXCEPT !.pc = "create", !.body = b]]
             /\ last' = IdleReq
        ELSE Answer(c, [r0 EXCEPT !.resp = out])
  /\ calls' = calls + 1
  /\ UNCHANGED <<db, now, stripsUndefined, issued, accepted, revoked, superseded, passwordChanged, content>>

\* A collection without the unique indexes.
NoUniqueIndex(store, id, doc) == FALSE

\* The unique indexes on username and email reject a document whose
\* username or email another document holds (E11000).
UniqueIndexRejects(store, id, doc) ==
  \E j \in Ids \ {id} :
    /\ store[j] # NoDoc
    /\ (store[j].username = doc.username \/ store[j].email = doc.email)

FreeIds == {i \in Ids : db[i] = NoDoc}

\* User.create({ username: username.toLowerCase(), ... }): the error thrown
\* for the document it would insert under id, or "ok".
CreateCheck(store, id, b) ==
  IF b.username = Undefined
  THEN Fail(500, "Cannot read properties of undefined (reading 'toLowerCase')")
  ELSE IF b.email = Undefined \/ b.fullName = Undefined \/ b.password = NoPassword
  THEN Fail(500, "User validation failed")
  ELSE IF UniqueIndexRejects(store, id,
            NewDoc(id, toLowerCase(b.username), b.email, b.fullName, b.password))
  THEN Fail(500, "E11000 duplicate key error")
  ELSE Fail(0, "ok")

RegisterCreate(c) ==
  /\ req[c].pc = "create"
  /\ FreeIds # {}
  /\ LET r == [req[c] EXCEPT !.raced = Taken(db, req[c].body)]
         b == r.body
     IN \E i \in FreeIds :
          LET out == CreateCheck(db, i, b)
          IN IF out.status = 0
             THEN /\ db' = [db EXCEPT ![i] =
                              NewDoc(i, toLowerCase(b.username), b.email, b.fullName, b.password)]
                  /\ req' = [req EXCEPT ![c] = [r EXCEPT !.pc = "created", !.id = i,
                                                   !.wrote = TRUE]]
                  /\ last' = IdleReq
             ELSE /\ Answer(c, [r EXCEPT !.resp = out])
                  /\ UNCHANGED db
  /\ UNCHANGED <<now, stripsUndefined, calls, issued, accepted, revoked, superseded, passwordChanged, content>>

\* registerUser after User.create: the projection is read and returned.
RegisterRespond(c) ==
  /\ req[c].pc = "created"
  /\ LET r == req[c]
     IN IF db[r.id] = NoDoc
        THEN Answer(c, [r EXCEPT !.resp =
                          Fail(500, "Something went wrong while registering the user")])
        ELSE Answer(c, [r EXCEPT !.resp =
                          [Fail(201, "User registered successfully")
                             EXCEPT !.user = SelectPublic(db[r.id])]])
  /\ UNCHANGED <<db, now, stripsUndefined, calls, issued, accepted, revoked, superseded, passwordChanged, content>>

\* ---------------------------------------------------- updateAccountDetails
AccountOps == {"updateAccount"}

\* findByIdAndUpdate(id, { $set: { fullName, email } }): the update is cast
\* by the schema, so the setters of both paths run.
UpdatedDoc(doc, fullName, email) ==
  [doc EXCEPT !.fullName = trim(fullName), !.email = CastIdentity(email)]

updateAccountDetails(c, fullName, email) ==
  /\ req[c].pc = "handler" /\ req[c].op = "updateAccount"
  /\ LET r == [req[c] EXCEPT !.ran = TRUE,
                 !.missing = (fullName \in {Undefined, EmptyStr} \/ email \in {Undefined, EmptyStr})]
         uid == r.user.id
     IN IF Falsy(fullName) \/ Falsy(email) THEN
          /\ Answer(c, [r EXCEPT !.resp = Fail(400, "All fields are required")])
          /\ UNCHANGED db
        ELSE IF db[uid] = NoDoc THEN
          /\ Answer(c, [r EXCEPT !.resp = Fail(200, "Account details updated successfully")])
          /\ UNCHANGED db
        ELSE IF UniqueIndexRejects(db, uid, UpdatedDoc(db[uid], fullName, email)) THEN
          /\ Answer(c, [r EXCEPT !.resp = Fail(500, "E11000 duplicate key error")])
          /\ UNCHANGED db
        ELSE
          /\ db' = [db EXCEPT ![uid] = UpdatedDoc(@, fullName, email)]
          /\ Answer(c, [r EXCEPT !.wrote = (db' # db),
                           !.resp = [Fail(200, "Account details updated successfully")
                                       EXCEPT !.user = SelectPublic(db'[uid])]])
  /\ UNCHANGED <<now, stripsUndefined, calls, issued, accepted, revoked, superseded, passwordChanged, content>>

\* ------------------------------------------------------------------- views
\* The Subscription and WatchHistory collections the view handlers read:
\* every set of up to three subscriptions between the two members, and of
\* up to two watch records, one per video (the pair video, owner is unique).
Members == {"id1", "id2"}
NoRecord == "none"

SubscriptionSets ==
  {{[id |-> k, subscriber |-> f[k][1], channel |-> f[k][2]] :
      k \in {j \in {"s1", "s2", "s3"} : f[j] # <<NoRecord, NoRecord>>}} :
     f \in [{"s1", "s2", "s3"} -> (Members \X Members) \cup {<<NoRecord, NoRecord>>}]}

WatchHistorySets ==
  {{[id |-> k, video |-> k, owner |-> f[k]] : k \in {j \in {"v1", "v2"} : f[j] # NoRecord}} :
     f \in [{"v1", "v2"} -> Members \cup {NoRecord}]}

ChannelNames == {Undefined, <<" ">>, <<"u", "1">>, <<"U", "2">>, <<"u", "9">>}

\* $lookup: the documents of the collection whose foreignField equals the
\* local _id; a document without the field has null there.
FieldOf(r, f) == IF f \in DOMAIN r THEN r[f] ELSE NoId

Lookup(coll, foreignField, id) == {r \in coll : FieldOf(r, foreignField) = id}

\* $match: { username: username.toLowerCase() }, and $match: { _id }.
MatchUsername(store, username) ==
  {i \in Ids : store[i] # NoDoc /\ store[i].username = toLowerCase(username)}

MatchId(store, id) == {i \in Ids : i = id /\ store[i] # NoDoc}

\* getUserChannelProfile: the pipeline's $lookup and $addFields stages for
\* the matched channel and req.user?._id.
ChannelFields(subs, channel, requester) ==
  LET subscribers == Lookup(subs, "subscriber", channel)
      subscribeTo == Lookup(subs, "channel", channel)
  IN [NoData EXCEPT !.subscribersCount = Cardinality(subscribers),
                    !.channelsSubscribedToCount = Cardinality(subscribeTo),
                    !.isSubscribed = (requester \in {r.subscriber : r \in subscribers})]

getUserChannelProfile(requester, username) ==
  /\ requester = NoId \/ Exists(requester)
  /\ LET found == IF Falsy(username) THEN {} ELSE MatchUsername(db, username)
         r == [IdleReq EXCEPT !.op = "channelProfile", !.pc = "done", !.ran = TRUE,
                 !.user = IF requester = NoId THEN NoUser ELSE SelectPublic(db[requester])]
     IN last' =
          IF Falsy(username) \/ trim(username) = EmptyStr
          THEN [r EXCEPT !.resp = Fail(400, "Username is required")]
          ELSE IF found = {}
          THEN [r EXCEPT !.resp = Fail(404, "Channel not found")]
          ELSE LET channel == CHOOSE i \in found : TRUE
               IN [r EXCEPT !.id = channel,
                      !.resp = [Fail(200, "Channel profile fetched successfully")
                                  EXCEPT !.data = ChannelFields(subscriptions, channel, requester)]]
  /\ UNCHANGED <<db, now, stripsUndefined, req, calls, issued, accepted, revoked, superseded,
                 passwordChanged, content>>

\* getUserWatchHistory: user[0].watchHistory of the pipeline, whose first
\* $lookup joins on the foreign field "user".
WatchHistoryField(coll, id) == Lookup(coll, "user", id)

getUserWatchHistory(requester) ==
  /\ LET found == MatchId(db, requester)
         r == [IdleReq EXCEPT !.op = "watchHistory", !.pc = "done", !.ran = TRUE,
                 !.id = requester]
     IN last' =
          IF found = {}
          THEN [r EXCEPT !.resp = Fail(404, "User not found")]
          ELSE [r EXCEPT !.resp = [Fail(200, "Watch history fetched successfully")
                                     EXCEPT !.data.watchHistory =
                                              WatchHistoryField(watchHistories, requester)]]
  /\ UNCHANGED <<db, now, stripsUndefined, req, calls, issued, accepted, revoked, superseded,
                 passwordChanged, content>>

\* ------------------------------------------------------------ publishVideo
VideoIds == {"v1", "v2", "v3"}
TitleInputs == {Undefined, EmptyStr, <<"t">>, <<"t", " ">>, <<"T">>}

\* Video.findOne({ title }): the filter is cast by the schema (trim: true).
FindByTitle(coll, title) == {v \in coll : v.title = trim(title)}

\* publishVideo up to the uploads: the error thrown, or "ok".
PublishCheck(coll, title, files) ==
  IF Falsy(title) THEN Fail(400, "Title is required.")
  ELSE IF FindByTitle(coll, title) # {}
  THEN Fail(409, "Video with the same title already exists.")
  ELSE IF ~files THEN Fail(400, "Video and thumbnail files are required.")
  ELSE Fail(0, "ok")

publishVideo(c, owner, title, files) ==
  /\ CanStart(c)
  /\ Exists(owner)
  /\ LET out == PublishCheck(videos, title, files)
         r0 == [IdleReq EXCEPT !.op = "publish", !.id = owner, !.title = title,
                  !.missing = (title \in {Undefined, EmptyStr}),
                  !.found = (\E v \in videos : v.title = title)]
     IN IF out.status = 0
        THEN /\ req' = [req EXCEPT ![c] = [r0 EXCEPT !.pc = "upload", !.title = title]]
             /\ last' = IdleReq
        ELSE Answer(c, [r0 EXCEPT !.resp = out])
  /\ calls' = calls + 1
  /\ UNCHANGED <<db, now, stripsUndefined, issued, accepted, revoked, superseded,
                 passwordChanged, content>>

\* The uploads, then Video.create: videoFile and thumbnail are required, so
\* an upload that returns no url makes the validation fail.
PublishCreate(c, uploaded) ==
  /\ req[c].pc = "upload"
  /\ VideoIds \ {v.id : v \in videos} # {}
  /\ LET r == req[c]
         title == r.title
     IN IF ~uploaded
        THEN /\ Answer(c, [r EXCEPT !.resp = Fail(500, "Video validation failed")])
             /\ UNCHANGED videos
        ELSE \E k \in VideoIds \ {v.id : v \in videos} :
               /\ videos' = videos \cup {[id |-> k, title |-> trim(title), owner |-> r.id]}
               /\ Answer(c, [r EXCEPT !.wrote = TRUE, !.title = trim(title),
                                !.resp = Fail(201, "Video published successfully")])
  /\ UNCHANGED <<db, now, stripsUndefined, calls, issued, accepted, revoked, superseded,
                 passwordChanged, subscriptions, watchHistories>>

Next ==
  \/ Tick
  \/ \E i \in Ids : RemoveAccount(i)
  \/ \E c \in Clients, in \in SessionLoginInputs : LoginStart(c, in[1], in[2], in[3])
  \/ \E c \in Clients : GenLoad(c)
  \/ \E c \in Clients : GenSave(c)
  \/ \E c \in Clients : LoginRespond(c)
  \/ \E c \in Clients, in \in TokenInputs : RefreshStart(c, in)
  \/ \E c \in Clients, op \in ProtectedOps, in \in TokenInputs : VerifyJWT(c, op, in)
  \/ \E c \in Clients : logoutUser(c)
  \/ \E c \in Clients : getCurrentUser(c)
  \/ \E c \in Clients, o \in PasswordInputs, n \in PasswordInputs : currentPasswordChange(c, o, n)
  \/ \E c \in Clients : PasswordSave(c)

Spec == Init /\ [][Next]_vars

\* The state a completed login of the first account at second 0 leaves.
SessionDoc ==
  [InitDb["id1"] EXCEPT !.refreshToken = generateRefreshToken(InitDb["id1"], 0)]

InitSession ==
  /\ db = [InitDb EXCEPT !["id1"] = SessionDoc, !["id2"] = NoDoc]
  /\ now = 0
  /\ stripsUndefined \in BOOLEAN
  /\ req = [c \in Clients |-> IdleReq]
  /\ last = IdleReq
  /\ calls = 0
  /\ issued = {[accessToken |-> generateAccessToken(InitDb["id1"], 0),
                refreshToken |-> SessionDoc.refreshToken, by |-> "login"]}
  /\ accepted = {}
  /\ revoked = {}
  /\ superseded = {}
  /\ passwordChanged = [i \in Ids |-> NoChange]
  /\ subscriptions = {}
  /\ watchHistories = {}
  /\ videos = {}

SpecSession == InitSession /\ [][Next]_vars

\* Registrations, logins and account updates, from one registered account.
NextAccounts ==
  \/ \E c \in Clients, b \in RegisterInputs : registerUser(c, b)
  \/ \E c \in Clients : RegisterCreate(c)
  \/ \E c \in Clients : RegisterRespond(c)
  \/ \E c \in Clients, in \in SessionLoginInputs : LoginStart(c, in[1], in[2], in[3])
  \/ \E c \in Clients : GenLoad(c)
  \/ \E c \in Clients : GenSave(c)
  \/ \E c \in Clients : LoginRespond(c)
  \/ \E c \in Clients, op \in AccountOps, in \in TokenInputs : VerifyJWT(c, op, in)
  \/ \E c \in Clients, in \in UpdateInputs : updateAccountDetails(c, in[1], in[2])

SpecAccounts == Init /\ [][NextAccounts]_vars

\* The view handlers, applied to every set of subscriptions and watch records.
InitViews ==
  /\ db = InitDb
  /\ now = 0
  /\ stripsUndefined \in BOOLEAN
  /\ req = [c \in Clients |-> IdleReq]
  /\ last = IdleReq
  /\ calls = 0
  /\ issued = {}
  /\ accepted = {}
  /\ revoked = {}
  /\ superseded = {}
  /\ passwordChanged = [i \in Ids |-> NoChange]
  /\ subscriptions \in SubscriptionSets
  /\ watchHistories \in WatchHistorySets
  /\ videos = {}

NextViews ==
  \/ \E requester \in Ids \cup {NoId}, username \in ChannelNames :
       getUserChannelProfile(requester, username)
  \/ \E requester \in Ids \cup {NoId} : getUserWatchHistory(requester)

SpecViews == InitViews /\ [][NextViews]_vars

\* Video publications by the registered account.
NextVideos ==
  \/ \E c \in Clients, owner \in Ids, title \in TitleInputs, files \in BOOLEAN :
       publishVideo(c, owner, title, files)
  \/ \E c \in Clients, uploaded \in BOOLEAN : PublishCreate(c, uploaded)

SpecVideos == Init /\ [][NextVideos]_vars

\* Logins alone, against two registered accounts and every credential input.
InitLogin ==
  /\ db = InitDb
  /\ InitRest

NextLogin ==
  \/ \E i \in Ids : RemoveAccount(i)
  \/ \E c \in Clients, in \in LoginInputs : LoginStart(c, in[1], in[2], in[3])
  \/ \E c \in Clients : GenLoad(c)
  \/ \E c \in Clients : GenSave(c)
  \/ \E c \in Clients : LoginRespond(c)

SpecLogin == InitLogin /\ [][NextLogin]_vars

\* =================================================================== claims
Refreshed == last.op = "refresh" /\ last.resp.status = 200

\* C1: a refresh call presenting a token that an earlier refresh call has
\* already accepted is answered 401 and writes nothing to the store.
C1_AntiReplay ==
  (last.op = "refresh" /\ last.replay) => (last.resp.status = 401 /\ ~last.wrote)

\* C2: a refresh call presenting a token that was delivered before a
\* completed logout of its account, with no login since, is answered 401.
C2_LogoutFinality ==
  (last.op = "refresh" /\ last.stale) => last.resp.status = 401

\* C4: the refresh token a successful refresh returns differs from the one
\* that was presented.
C4_RotationFresh ==
  Refreshed => last.resp.refreshToken # last.tok

\* The four conditions of the refresh check, as the request found them.
Passed(r) == r.tok # NullToken /\ r.verified /\ r.found /\ r.matched

NoTokens(resp) ==
  /\ resp.accessToken = NullToken
  /\ resp.refreshToken = NullToken
  /\ resp.cookies = "untouched"

\* C3: a refresh call gets past its check, and is answered 200 with a token
\* pair of the account, only if its token was present, verified under the
\* refresh secret, named an existing account and equalled the stored token;
\* every other answer is 401, carries no token and follows no write.
C3_DualCheck ==
  /\ \A c \in Clients : (req[c].op = "refresh" /\ req[c].pc # "idle") => Passed(req[c])
  /\ last.op = "refresh" =>
       /\ last.resp.status \in {200, 401}
       /\ last.resp.status = 200 =>
            /\ Passed(last)
            /\ last.resp.accessToken.kind = "access"
            /\ last.resp.refreshToken.kind = "refresh"
            /\ last.resp.accessToken.id = last.tok.id
            /\ last.resp.refreshToken.id = last.tok.id
       /\ last.resp.status = 401 => (NoTokens(last.resp) /\ ~last.wrote)

C3_Witness ==
  /\ Refreshed
  /\ last.wrote
  /\ db[last.id].refreshToken = last.resp.refreshToken

\* C5: once a refresh call has passed the check, nothing compares the stored
\* token again: the call is answered 200 unless token generation itself
\* fails, whatever the store holds when the write lands.
C5_NoCompareAndSwap ==
  (last.op = "refresh" /\ Passed(last)) => (last.resp.status = 200 <=> ~last.broke)

\* Two calls were answered 200 for one presented token, the second having
\* passed its check before the first was answered, with different new pairs.
C5_Witness == Refreshed /\ last.raced

\* C6: at most one refresh token per account passes the refresh check, and
\* a refresh call presenting the token of a login that another login on the
\* account has followed is answered 401.
AllRefreshTokens ==
  {JwtSign("refresh", i, NoSnap, REFRESH_TOKEN_EXPIRY, t) : i \in Ids, t \in 0..MaxTime}

LiveTokens(i) ==
  {t \in AllRefreshTokens : t.id = i /\ RefreshCheck(db, t, now) = "ok"}

C6_SingleLive ==
  /\ \A i \in Ids : Cardinality(LiveTokens(i)) <= 1
  /\ (last.op = "refresh" /\ last.old) => last.resp.status = 401

\* What verifyJWT requires, as the request found it, and the identity it
\* attaches: the account the token names, without password and refreshToken.
GatePassed(r) == r.tok # NullToken /\ r.verified /\ r.found

Identity(r) ==
  /\ DOMAIN r.user = {"id", "username", "email", "fullName"}
  /\ r.user.id = r.tok.id
  /\ r.user.username = InitDb[r.tok.id].username
  /\ r.user.email = InitDb[r.tok.id].email

\* C7: the handler of a protected route runs only for a request whose access
\* token was present, verified under the access secret and named an existing
\* account, with that account's public fields attached; any other request is
\* answered 401 and its handler never runs.
C7_Gate ==
  /\ \A c \in Clients :
       (req[c].op \in ProtectedOps /\ req[c].pc # "idle") =>
         (GatePassed(req[c]) /\ Identity(req[c]))
  /\ last.op \in ProtectedOps =>
       /\ last.ran => (GatePassed(last) /\ Identity(last))
       /\ ~GatePassed(last) => (last.resp.status = 401 /\ ~last.ran /\ ~last.wrote)

C7_Witness ==
  /\ last.op = "currentUser"
  /\ last.ran
  /\ last.resp.status = 200
  /\ last.resp.user = SelectPublic(db[last.tok.id])

\* C8: every access token delivered to a client passes verifyJWT while it is
\* unexpired and its account exists, whatever has happened to the stored
\* refresh token and password since; verifyJWT itself writes nothing.
C8_Stateless ==
  /\ \A p \in issued :
       (now < p.accessToken.exp /\ Exists(p.accessToken.id)) =>
         AuthCheck(db, p.accessToken, now) = "ok"
  /\ \A c \in Clients : req[c].pc = "handler" => ~req[c].wrote

\* A request passes the gate after a logout has cleared the stored token.
C8_Witness ==
  /\ last.op = "currentUser"
  /\ last.resp.status = 200
  /\ \E p \in issued : p.accessToken = last.tok
  /\ db[last.tok.id].refreshToken = NullToken

\* C9: a login naming an existing account with a wrong password is answered
\* 401 without tokens or cookies and writes nothing to the store; no login
\* with a wrong password gets as far as token generation.
C9_FailedLogin ==
  /\ \A c \in Clients : (req[c].op = "login" /\ req[c].pc # "idle") => req[c].matched
  /\ (last.op = "login" /\ ~last.missing /\ last.found /\ ~last.matched) =>
       (last.resp.status = 401 /\ NoTokens(last.resp) /\ ~last.wrote)

\* The failed login leaves an earlier session refreshable.
C9_Witness ==
  /\ last.op = "login"
  /\ last.resp.status = 401
  /\ \E p \in issued : RefreshCheck(db, p.refreshToken, now) = "ok"

\* C10, as claimed: 400 for missing credentials, else 404 for no matching
\* account, else 401 for a wrong password, else 200 with both tokens.
C10_LoginMappingClaimed ==
  last.op = "login" =>
    last.resp.status =
      (IF last.missing THEN 400
       ELSE IF ~last.found THEN 404
       ELSE IF ~last.matched THEN 401
       ELSE 200)

\* C10, amended: as claimed, but a login that passes the three checks is
\* answered 200 with both tokens or, when token generation fails, 500.
C10_LoginMapping ==
  /\ \A c \in Clients :
       (req[c].op = "login" /\ req[c].pc # "idle") =>
         (~req[c].missing /\ req[c].found /\ req[c].matched)
  /\ last.op = "login" =>
       IF last.missing THEN last.resp.status = 400 /\ NoTokens(last.resp)
       ELSE IF ~last.found THEN last.resp.status = 404 /\ NoTokens(last.resp)
       ELSE IF ~last.matched THEN last.resp.status = 401 /\ NoTokens(last.resp)
       ELSE \/ /\ last.resp.status = 200
               /\ ~last.broke
               /\ last.resp.accessToken.kind = "access"
               /\ last.resp.refreshToken.kind = "refresh"
            \/ /\ last.resp.status = 500
               /\ last.broke
               /\ NoTokens(last.resp)

\* A login that passed the three checks and was answered with both tokens.
C10_Witness ==
  /\ last.op = "login"
  /\ ~last.missing /\ last.found /\ last.matched
  /\ last.resp.status = 200
  /\ last.resp.accessToken.id = "id2"
  /\ last.resp.refreshToken.id = "id2"

TokenOps == {"login", "refresh"}

\* C11: a login or refresh whose token generation fails is answered with an
\* error that carries no token and sets no cookie, and has written nothing;
\* a refresh token is delivered only by a request whose save left exactly
\* that value on the account, or found it there already when it loaded the
\* account.
C11_IssuanceAtomic ==
  /\ \A c \in Clients : req[c].pc = "respond" => req[c].persisted
  /\ last.op \in TokenOps =>
       /\ last.broke =>
            (last.resp.status >= 400 /\ NoTokens(last.resp) /\ ~last.wrote)
       /\ last.resp.refreshToken # NullToken => last.persisted

\* A later login's save failed: the earlier login's token is still stored.
C11_Witness ==
  /\ last.op = "login"
  /\ last.broke
  /\ Exists(last.id)
  /\ \E p \in issued : db[last.id].refreshToken = p.refreshToken

\* C12: a failure inside token generation is answered 500 by login and by
\* refresh.
C12_GenerationFailure500 ==
  (last.op \in TokenOps /\ last.broke) => last.resp.status = 500

\* What currentPasswordChange validates before it loads the account.
Invalid(r) == r.missing \/ r.equal

\* C13: a password change whose old password does not match the stored hash
\* is answered 401 and leaves the stored password as it was.
C13_WrongOldPassword401 ==
  (last.op = "changePassword" /\ last.ran /\ ~Invalid(last)
     /\ Exists(last.id) /\ ~last.matched) =>
    (last.resp.status = 401 /\ ~last.wrote)

\* C14: a password change with a missing old or new password, or with both
\* equal, is answered 400 whatever the account holds (even if it is gone or
\* the old password is wrong), and writes nothing; no such request reaches
\* the save.
C14_ValidateFirst ==
  /\ \A c \in Clients : req[c].pc = "pwsave" => (~Invalid(req[c]) /\ req[c].matched)
  /\ (last.op = "changePassword" /\ last.ran /\ Invalid(last)) =>
       (last.resp.status = 400 /\ ~last.wrote)

\* Old and new password equal, and neither is the account's password.
C14_Witness ==
  /\ last.op = "changePassword"
  /\ last.equal /\ ~last.missing /\ ~last.matched
  /\ last.resp.status = 400

\* C15: once a password change (old, new) has been saved, and until another
\* one is, a login with the old password is answered 401 and never reaches
\* token generation, and a login with the new password passes the password
\* check and is answered 200 with both tokens (500 if token generation
\* fails), whatever logins, refreshes and logouts came in between.
C15_PasswordChangeTakesEffect ==
  /\ \A c \in Clients : (req[c].op = "login" /\ req[c].pc # "idle") => ~req[c].pwOld
  /\ last.op = "login" =>
       /\ last.pwOld => (last.resp.status = 401 /\ NoTokens(last.resp))
       /\ last.pwNew =>
            \/ (last.resp.status = 200 /\ last.resp.refreshToken.kind = "refresh")
            \/ (last.resp.status = 500 /\ last.broke)

\* A login with the new password succeeds after the change and a logout or
\* refresh that followed it.
C15_Witness ==
  /\ last.op = "login"
  /\ last.pwNew
  /\ last.resp.status = 200
  /\ revoked # {} \/ accepted # {}

\* A login with the old password fails after the change.
C15_WitnessOld ==
  /\ last.op = "login"
  /\ last.pwOld
  /\ last.resp.status = 401

\* C16: the user object in a 200 answer of login or getCurrentUser has no
\* password field and no refreshToken field.
C16_PublicProjection ==
  (last.op \in {"login", "currentUser"} /\ last.resp.status = 200) =>
    (DOMAIN last.resp.user) \cap {"password", "refreshToken"} = {}

\* The account returned holds a password hash and a refresh token.
C16_Witness ==
  /\ last.op = "login"
  /\ last.resp.status = 200
  /\ last.resp.user.id = last.id
  /\ db[last.id].refreshToken # NullToken
  /\ last.resp.user.username = db[last.id].username

\* C17: a logout of an existing account, the first or a repeated one, is
\* answered 200 and leaves the stored refresh token cleared.
C17_LogoutIdempotent ==
  (last.op = "logout" /\ last.ran /\ Exists(last.id)) =>
    (last.resp.status = 200 /\ db[last.id].refreshToken = NullToken)

\* Lower case, and no blank at either end.
Canonical(s) ==
  /\ \A k \in 1..Len(s) : s[k] \notin {"U", "E"}
  /\ s # EmptyStr => (s[1] # " " /\ s[Len(s)] # " ")

\* C18: no two accounts share a username, no two share an email, and every
\* stored username and email is lower case and trimmed.
C18_AccountIdentity ==
  /\ \A i \in Ids, j \in Ids :
       (i # j /\ db[i] # NoDoc /\ db[j] # NoDoc) =>
         (db[i].username # db[j].username /\ db[i].email # db[j].email)
  /\ \A i \in Ids :
       db[i] # NoDoc => (Canonical(db[i].username) /\ Canonical(db[i].email))

\* Two accounts, created from input in upper case with blanks, and one of
\* them updated since.
C18_Witness ==
  /\ Cardinality({i \in Ids : db[i] # NoDoc}) = 2
  /\ db["id1"].email = <<"e", "2">>
  /\ last.op = "register"
  /\ last.resp.status = 201

\* C19: a registration with every field given whose username or email is
\* that of an existing account, when it arrives or (another registration
\* having been processed meanwhile) when it comes to create the account, is
\* answered 409 and creates no account.
C19_DuplicateConflict ==
  (last.op = "register" /\ ~last.missing /\ (last.found \/ last.raced)) =>
    (last.resp.status = 409 /\ ~last.wrote)

\* C20: a registration with a field absent or blank, and no identity of an
\* existing account, is answered 400 and creates no account.
C20_MissingField400 ==
  (last.op = "register" /\ last.missing /\ ~last.found) =>
    (last.resp.status = 400 /\ ~last.wrote)

\* The plaintext most recently set on an account: by the latest password
\* change saved, or else at registration.
LatestPlaintext(i) ==
  IF passwordChanged[i] # NoChange THEN passwordChanged[i].new
  ELSE IF i = "id2" THEN "pw2" ELSE "pw1"

\* C21: the stored password of every account is a digest, of the plaintext
\* most recently set by registration or by a saved password change; login
\* and refresh, which save the account for the refresh token, leave it as
\* it was.
C21_StoredPassword ==
  /\ \A i \in Ids :
       Exists(i) => /\ DOMAIN db[i].password = {"bcrypt"}
                    /\ db[i].password.bcrypt = LatestPlaintext(i)
  /\ \A c \in Clients : req[c].pc = "respond" => req[c].kept
  /\ (last.op \in TokenOps /\ last.resp.status = 200) => last.kept

\* A refresh saved a new token on an account whose password was changed.
C21_Witness ==
  /\ Refreshed
  /\ last.wrote
  /\ passwordChanged[last.id] # NoChange

\* C22: when a logout has cleared the stored token of an account while a
\* refresh of that account was in flight, and no login of the account has
\* come since, the stored token is still cleared when the refresh is
\* answered.
C22_LogoutBeatsRefresh ==
  (/\ last.op = "refresh" /\ last.cleared
   /\ Exists(last.id)
   /\ \A c \in Clients : ~(req[c].op = "login" /\ req[c].id = last.id)) =>
    db[last.id].refreshToken = NullToken

\* C27: a saved password change leaves the stored refresh token as it finds
\* it, and a token save leaves the stored password as it finds it: after a
\* password change and a refresh that ran concurrently the account holds the
\* new password and the rotated token.
C27_PasswordChangeKeepsSession ==
  /\ (last.op = "changePassword" /\ last.resp.status = 200) =>
       /\ last.kept
       /\ db[last.id].password = [bcrypt |-> passwordChanged[last.id].new]
  /\ Refreshed => last.kept

\* The password change was saved after a concurrent refresh had rotated the
\* token the change loaded; the rotated token is the stored one.
C27_Witness ==
  /\ last.op = "changePassword"
  /\ last.resp.status = 200
  /\ last.raced
  /\ \E a \in accepted : db[last.id].refreshToken = a.refreshToken

\* C23: a channel profile answered with 200 carries, as subscribersCount,
\* the number of Subscription records whose channel is that user, and as
\* channelsSubscribedToCount the number whose subscriber is that user.
C23_ProfileCounts ==
  (last.op = "channelProfile" /\ last.resp.status = 200) =>
    /\ last.resp.data.subscribersCount =
         Cardinality({r \in subscriptions : r.channel = last.id})
    /\ last.resp.data.channelsSubscribedToCount =
         Cardinality({r \in subscriptions : r.subscriber = last.id})

\* C24: in a channel profile answered with 200, isSubscribed is true exactly
\* when a Subscription record exists whose subscriber is the requesting user
\* and whose channel is the profiled user.
C24_IsSubscribed ==
  (last.op = "channelProfile" /\ last.resp.status = 200) =>
    (last.resp.data.isSubscribed <=>
       \E r \in subscriptions : r.subscriber = last.user.id /\ r.channel = last.id)

\* C25: getUserWatchHistory answers 404 exactly when the authenticated user
\* does not exist, and otherwise returns exactly the WatchHistory records
\* whose owner is that user.
C25_WatchHistory ==
  last.op = "watchHistory" =>
    /\ (last.resp.status = 404) <=> ~Exists(last.id)
    /\ last.resp.status = 200 =>
         last.resp.data.watchHistory = {r \in watchHistories : r.owner = last.id}

\* C26: a publishVideo call without a title is answered 400, a call whose
\* title a stored video has is answered 409 and creates nothing, and no two
\* stored videos ever share a title.
C26_TitleUnique ==
  /\ (last.op = "publish" /\ last.missing) => last.resp.status = 400 /\ ~last.wrote
  /\ (last.op = "publish" /\ ~last.missing /\ last.found) =>
       last.resp.status = 409 /\ ~last.wrote
  /\ \A v, w \in videos : v.title = w.title => v.id = w.id

TypeOK ==
  /\ now \in 0..MaxTime
  /\ calls \in 0..MaxCalls

====
